---- MODULE Spec2Model ----
(***************************************************************************)
(* Model of dagger/client.go: Client.Compute and its three errgroup tasks  *)
(* (logSolveStatus, buildfn, outputfn), the io.Pipe between buildfn and    *)
(* outputfn, and the events channel between the backend and the printer.   *)
(***************************************************************************)
EXTENDS Integers, Sequences, FiniteSets

\* ------------------------------------------------------------------ bounds
MaxDirs == 2
MaxEntries == 2
MaxEvents == 2
MaxStream == 3
MaxName == 5

\* ------------------------------------------------------------ value domain
NoErr == "nil"
PathResolutionError == "PathResolutionError"
SolveError == "SolveError"
StreamReadError == "StreamReadError"
DecodeError == "DecodeError"
MergeError == "MergeError"
PrintError == "PrintError"
CanceledError == "context canceled"

Paths == {"p", "q"}
Fields == {"f", "g"}
Keys == Paths \X Fields
Vals == {"v1", "v2"}
Absent == "absent"

\* A structured value: every (path, field) is Absent or carries a scalar.
Struct(S) == [k \in Keys |-> IF \E kv \in S : kv[1] = k
                              THEN (CHOOSE kv \in S : kv[1] = k)[2]
                              ELSE Absent]

\* compiler.EmptyStruct()
EmptyStruct == [k \in Keys |-> Absent]

Defined(v) == {k \in Keys : v[k] # Absent}
PathsOf(v) == {k[1] : k \in Defined(v)}

\* *compiler.Value: a nil pointer or a pointer to a value
NilValue == [isNil |-> TRUE, v |-> EmptyStruct]
Ptr(v) == [isNil |-> FALSE, v |-> v]

\* compiler.Compile: the decoded unit, or a decode failure on malformed bytes
Compile(content) ==
  IF content.wellFormed THEN [err |-> NoErr, v |-> content.v]
                        ELSE [err |-> DecodeError, v |-> EmptyStruct]

\* (*compiler.Value).Fill: unification; a conflicting scalar at an existing
\* (path, field) is rejected, anything else merges to the union.
Conflict(a, b) == \E k \in Keys : a[k] # Absent /\ b[k] # Absent /\ a[k] # b[k]
Fill(a, b) ==
  IF Conflict(a, b) THEN [err |-> MergeError, v |-> a]
  ELSE [err |-> NoErr, v |-> [k \in Keys |-> IF a[k] # Absent THEN a[k] ELSE b[k]]]

\* ------------------------------------------------------------- tar entries
CueExt == <<".", "c", "u", "e">>

\* strings.HasSuffix
HasSuffix(s, suffix) ==
  /\ Len(s) >= Len(suffix)
  /\ SubSeq(s, Len(s) - Len(suffix) + 1, Len(s)) = suffix

Good(S) == [wellFormed |-> TRUE, v |-> Struct(S)]
Malformed == [wellFormed |-> FALSE, v |-> EmptyStruct]

Names == { <<"a", ".", "c", "u", "e">>,
           <<"a", ".", "t", "x", "t">>,
           <<"c", "u", "e">> }

Contents == { Good({}),
              Good({<< <<"p", "f">>, "v1" >>}),
              Good({<< <<"p", "f">>, "v2" >>}),
              Good({<< <<"p", "g">>, "v1" >>}),
              Good({<< <<"q", "f">>, "v1" >>}),
              Good({<< <<"p", "f">>, "v1" >>, << <<"q", "g">>, "v1" >>}),
              Malformed }

Entries == [name : Names, content : Contents]

\* the entries the concurrent runs export
CoreEntries == { [name |-> <<"a", ".", "c", "u", "e">>, content |-> Good({<< <<"p", "f">>, "v1" >>})],
                 [name |-> <<"b", ".", "c", "u", "e">>, content |-> Good({<< <<"p", "f">>, "v2" >>})],
                 [name |-> <<"a", ".", "t", "x", "t">>, content |-> Malformed],
                 [name |-> <<"b", ".", "c", "u", "e">>, content |-> Malformed] }

SeqsUpTo(S, n) == UNION {[1..m -> S] : m \in 0..n}

\* ------------------------------------------------------------------ hosts
\* const defaultBuildkitHost; hosts are strings, "" is <<>>
defaultBuildkitHost == <<"docker-container://buildkitd">>
ConnectionError == "ConnectionError"

\* ----------------------------------------------------- progress events
\* vertex names are strings over this alphabet
Chars == {"@", "c", " ", "r"}

\* a (component, message) pair, or the run-time panic of a slice expression
\* out of range
Tag(c, m) == [panic |-> FALSE, component |-> c, message |-> m]
Panic == [panic |-> TRUE, component |-> <<>>, message |-> <<>>]
NoTag == Tag(<<>>, <<>>)
NoEvent == [kind |-> "none", name |-> <<>>, index |-> 0, stream |-> 0]

Labels == 1..MaxDirs

\* ------------------------------------------------------------------- state
VARIABLES
  localdirs,     \* env.LocalDirs(): label -> whether filepath.Abs succeeds
  resolved,      \* labels already rewritten to their absolute path
  stream,        \* the tar entries the backend exports for this plan
  bpc, berr,     \* build task: position and the error buildfn returns
  builds,        \* number of c.c.Build calls issued
  written,       \* tar tokens the reader has taken from the pipe
  wpend,         \* a pipe write is blocked waiting for the reader
  outwClosed,    \* outw.Close() has run
  outrClosed,    \* outr.Close() has run
  sent,          \* progress events the backend has delivered
  eventsClosed,  \* the backend closed the events channel
  fpc, ferr,     \* print task: position and the error logSolveStatus returns
  logged,        \* events handled by the print task, in order
  late,          \* history: events handled after gctx was cancelled
  cpc,           \* output task: position
  skipBody,      \* tr still has the body of a skipped entry to discard
  acc,           \* outputfn's local out
  seen,          \* history: the entries whose header tr.Next() returned
  out, err,      \* Compute's out and err (written by the output task)
  egErr,         \* errgroup: the first error recorded
  gctxDone,      \* errgroup: gctx is cancelled
  mpc,           \* Compute: "wait" in eg.Wait(), then "returned"
  retOut, retErr,\* what Compute returned
  origin,        \* history: the error that arose first, in arising order
  hostArg,       \* NewClient: the host argument
  envHost,       \* NewClient: the value of BUILDKIT_HOST
  dialOk,        \* NewClient: whether bk.New succeeds
  dialed,        \* the hosts bk.New was called with, in order
  client,        \* what NewClient returned: "unset", "nil" or "client"
  connErr,       \* the error NewClient returned
  event,         \* the progress event handed to a print callback
  parsed,        \* what parseName returned for the event's vertex
  records,       \* the log records the callbacks emitted, in order
  rpc            \* callback: "idle", then "returned" or "panic"

vars == <<localdirs, resolved, stream, bpc, berr, builds, written, wpend,
          outwClosed, outrClosed, sent, eventsClosed, fpc, ferr, logged,
          late, cpc, skipBody, acc, seen, out, err, egErr, gctxDone, mpc,
          retOut, retErr, origin, hostArg, envHost, dialOk, dialed, client,
          connErr, event, parsed, records, rpc>>

buildVars == <<localdirs, resolved, bpc, berr, builds>>
pipeVars == <<written, wpend, outwClosed, outrClosed>>
printVars == <<sent, eventsClosed, fpc, ferr, logged, late>>
outputVars == <<cpc, skipBody, acc, seen, out, err>>
groupVars == <<egErr, gctxDone>>
mainVars == <<mpc, retOut, retErr>>
clientVars == <<hostArg, envHost, dialOk, dialed, client, connErr>>
reportVars == <<event, parsed, records, rpc>>
\* what no step of Compute changes
fixedVars == <<stream, clientVars, reportVars>>

\* the tar stream as the reader consumes it: header and body of each entry,
\* then the end-of-archive marker
NTokens == 2 * Len(stream) + 1
NextToken == written + 1
IsHdr(t) == t < NTokens /\ t % 2 = 1
IsBody(t) == t < NTokens /\ t % 2 = 0
IsEOA(t) == t = NTokens
\* EntryOf reading the archive from its last entry
EntryOf_Reversed(t) == stream[Len(stream) + 1 - ((t + 1) \div 2)]

EntryOf(t) == stream[(t + 1) \div 2]

FirstErr(e) == IF origin = NoErr THEN e ELSE origin

StartState ==
  /\ resolved = {}
  /\ bpc = "resolve" /\ berr = NoErr /\ builds = 0
  /\ written = 0 /\ wpend = FALSE
  /\ outwClosed = FALSE /\ outrClosed = FALSE
  /\ sent = 0 /\ eventsClosed = FALSE /\ late = 0
  /\ fpc = "recv" /\ ferr = NoErr /\ logged = <<>>
  /\ cpc = "next" /\ skipBody = FALSE /\ acc = EmptyStruct /\ seen = <<>>
  /\ out = NilValue /\ err = NoErr
  /\ egErr = NoErr /\ gctxDone = FALSE
  /\ mpc = "wait" /\ retOut = NilValue /\ retErr = NoErr
  /\ origin = NoErr

\* a client opened on the default host; no print callback running
ClientOpen ==
  /\ hostArg = <<>> /\ envHost = <<>> /\ dialOk = TRUE
  /\ dialed = <<defaultBuildkitHost>>
  /\ client = "client" /\ connErr = NoErr

ReportIdle ==
  /\ parsed = NoTag
  /\ records = <<>>
  /\ rpc = "idle"

\* Compute has spawned the three tasks and is about to wait for them
Init ==
  /\ \E L \in SUBSET Labels : localdirs \in [L -> BOOLEAN]
  /\ stream \in SeqsUpTo(CoreEntries, MaxEntries)
  /\ StartState
  /\ ClientOpen
  /\ event = NoEvent /\ ReportIdle

\* ------------------------------------------------------------ build task
\* ResolveDir with the error of filepath.Abs dropped
ResolveDir_IgnoresError ==
  /\ bpc = "resolve"
  /\ \E label \in DOMAIN localdirs \ resolved :
       resolved' = resolved \cup {label}
  /\ UNCHANGED <<localdirs, fixedVars, bpc, berr, builds, pipeVars, printVars,
                 outputVars, groupVars, mainVars, origin>>

\* one iteration of the range over localdirs
ResolveDir ==
  /\ bpc = "resolve"
  /\ \E label \in DOMAIN localdirs \ resolved :
       IF localdirs[label]
       THEN /\ resolved' = resolved \cup {label}
            /\ UNCHANGED <<bpc, berr, origin>>
       ELSE /\ bpc' = "defer"
            /\ berr' = PathResolutionError
            /\ origin' = FirstErr(PathResolutionError)
            /\ UNCHANGED resolved
  /\ UNCHANGED <<localdirs, fixedVars, builds, pipeVars, printVars, outputVars,
                 groupVars, mainVars>>

\* c.c.Build is called once every label is resolved
CallBuild ==
  /\ bpc = "resolve"
  /\ resolved = DOMAIN localdirs
  /\ bpc' = "build"
  /\ builds' = builds + 1
  /\ UNCHANGED <<localdirs, resolved, fixedVars, berr, pipeVars, printVars,
                 outputVars, groupVars, mainVars, origin>>

\* Build returns: the backend has closed the events channel; a write still
\* blocked on the pipe is abandoned
BuildReturns(e) ==
  /\ bpc' = "defer"
  /\ berr' = e
  /\ eventsClosed' = TRUE
  /\ wpend' = FALSE
  /\ UNCHANGED <<localdirs, resolved, fixedVars, builds, written, outwClosed,
                 outrClosed, sent, fpc, ferr, logged, late, outputVars, groupVars,
                 mainVars>>

\* the exporter writes the next piece of the tar stream into w
BackendWrite ==
  /\ bpc = "build"
  /\ ~wpend /\ written < NTokens /\ ~outrClosed
  /\ wpend' = TRUE
  /\ UNCHANGED <<buildVars, fixedVars, written, outwClosed, outrClosed, printVars,
                 outputVars, groupVars, mainVars, origin>>

\* a write on the pipe fails once the read end is closed; the solve fails
BackendWriteClosed ==
  /\ bpc = "build"
  /\ outrClosed /\ (wpend \/ written < NTokens)
  /\ BuildReturns(SolveError)
  /\ origin' = FirstErr(SolveError)

\* the solve fails on its own (callback error, backend failure)
BackendFails ==
  /\ bpc = "build"
  /\ BuildReturns(SolveError)
  /\ origin' = FirstErr(SolveError)

\* the solve is abandoned because gctx is cancelled
BackendCancelled ==
  /\ bpc = "build"
  /\ gctxDone
  /\ BuildReturns(SolveError)
  /\ origin' = FirstErr(SolveError)

\* the solve completes after the whole export was consumed
BackendSucceeds ==
  /\ bpc = "build"
  /\ written = NTokens /\ ~wpend
  /\ BuildReturns(NoErr)
  /\ UNCHANGED origin

\* BuildDefer closing outw on the success path only
BuildDefer_SuccessOnly ==
  /\ bpc = "defer"
  /\ bpc' = "exit"
  /\ outwClosed' = (berr = NoErr)
  /\ UNCHANGED <<localdirs, resolved, fixedVars, berr, builds, written, wpend,
                 outrClosed, printVars, outputVars, groupVars, mainVars, origin>>

\* defer outw.Close()
BuildDefer ==
  /\ bpc = "defer"
  /\ bpc' = "exit"
  /\ outwClosed' = TRUE
  /\ UNCHANGED <<localdirs, resolved, fixedVars, berr, builds, written, wpend,
                 outrClosed, printVars, outputVars, groupVars, mainVars, origin>>

\* errgroup: the first non-nil error is kept and cancels gctx
Record(e) ==
  IF e # NoErr /\ egErr = NoErr
  THEN egErr' = e /\ gctxDone' = TRUE
  ELSE UNCHANGED <<egErr, gctxDone>>

BuildExit ==
  /\ bpc = "exit"
  /\ bpc' = "done"
  /\ Record(berr)
  /\ UNCHANGED <<localdirs, resolved, fixedVars, berr, builds, pipeVars,
                 printVars, outputVars, mainVars, origin>>

\* ----------------------------------------------------------- output task
\* CompileAndFill with a conflicting value overwriting the old one
CompileAndFill_Overwrite(a, e) ==
  LET c == Compile(e.content) IN
  IF c.err # NoErr THEN [err |-> c.err, v |-> a]
  ELSE [err |-> NoErr,
        v |-> [k \in Keys |-> IF c.v[k] # Absent THEN c.v[k] ELSE a[k]]]

\* CompileAndFill with out replaced by the compiled value
CompileAndFill_Replace(a, e) ==
  LET c == Compile(e.content) IN
  IF c.err # NoErr THEN [err |-> c.err, v |-> a]
  ELSE [err |-> NoErr, v |-> c.v]

\* lines 185-191: compile the entry and merge it into out
CompileAndFill(a, e) ==
  LET c == Compile(e.content) IN
  IF c.err # NoErr THEN [err |-> c.err, v |-> a]
  ELSE LET m == Fill(a, c.v) IN
       IF m.err # NoErr THEN [err |-> m.err, v |-> a]
       ELSE [err |-> NoErr, v |-> m.v]

\* outputfnEntry without the extension test
outputfnEntry_NoFilter(a, e) == CompileAndFill(a, e)

\* lines 174-191: the loop body for one entry read without error
outputfnEntry(a, e) ==
  IF ~HasSuffix(e.name, CueExt) THEN [err |-> NoErr, v |-> a]
  ELSE CompileAndFill(a, e)

\* the reader takes the piece the writer is blocked on
Take ==
  /\ wpend
  /\ wpend' = FALSE
  /\ written' = written + 1
  /\ UNCHANGED <<outwClosed, outrClosed>>

\* outputfn returns (v, e); the task assigns out, err and returns err
OutputReturns(v, e) ==
  /\ cpc' = "defer"
  /\ out' = v
  /\ err' = e
  /\ origin' = IF e # NoErr THEN FirstErr(e) ELSE origin
  /\ UNCHANGED <<skipBody, acc>>

\* tr.Next() reads a header; a name without the extension is skipped
NextHeader ==
  /\ cpc = "next" /\ ~skipBody
  /\ IsHdr(NextToken)
  /\ Take
  /\ IF HasSuffix(EntryOf(NextToken).name, CueExt)
     THEN cpc' = "compile" /\ UNCHANGED skipBody
     ELSE skipBody' = TRUE /\ UNCHANGED cpc
  /\ seen' = Append(seen, EntryOf(NextToken))
  /\ UNCHANGED <<buildVars, fixedVars, printVars, acc, out, err, groupVars,
                 mainVars, origin>>

\* tr.Next() first discards the unread body of the skipped entry
NextSkipsBody ==
  /\ cpc = "next" /\ skipBody
  /\ IsBody(NextToken)
  /\ Take
  /\ skipBody' = FALSE
  /\ UNCHANGED <<buildVars, fixedVars, printVars, cpc, acc, seen, out, err, groupVars,
                 mainVars, origin>>

\* tr.Next() reads the end-of-archive marker: io.EOF, break, return out, nil
NextEndOfArchive ==
  /\ cpc = "next" /\ ~skipBody
  /\ IsEOA(NextToken)
  /\ Take
  /\ OutputReturns(Ptr(acc), NoErr)
  /\ UNCHANGED <<buildVars, fixedVars, printVars, seen, groupVars, mainVars>>

\* NextPipeClosed with the err != nil test ahead of the io.EOF test
NextPipeClosed_EOFIsError ==
  /\ cpc = "next"
  /\ outwClosed /\ ~wpend
  /\ OutputReturns(NilValue, StreamReadError)
  /\ UNCHANGED <<buildVars, fixedVars, pipeVars, printVars, seen, groupVars,
                 mainVars>>

\* tr.Next() on a pipe whose write end is closed: io.EOF between entries,
\* io.ErrUnexpectedEOF inside one
NextPipeClosed ==
  /\ cpc = "next"
  /\ outwClosed /\ ~wpend
  /\ IF skipBody
     THEN OutputReturns(NilValue, StreamReadError)
     ELSE OutputReturns(Ptr(acc), NoErr)
  /\ UNCHANGED <<buildVars, fixedVars, pipeVars, printVars, seen, groupVars,
                 mainVars>>

\* compiler.Compile reads the body, then out.Fill(v)
CompileEntry ==
  /\ cpc = "compile"
  /\ IsBody(NextToken)
  /\ Take
  /\ LET r == CompileAndFill(acc, EntryOf(NextToken)) IN
       IF r.err # NoErr
       THEN OutputReturns(NilValue, r.err)
       ELSE /\ cpc' = "next"
            /\ acc' = r.v
            /\ UNCHANGED <<skipBody, out, err, origin>>
  /\ UNCHANGED <<buildVars, fixedVars, printVars, seen, groupVars, mainVars>>

\* compiler.Compile reads a body cut short by the closed pipe
CompilePipeClosed ==
  /\ cpc = "compile"
  /\ outwClosed /\ ~wpend
  /\ OutputReturns(NilValue, DecodeError)
  /\ UNCHANGED <<buildVars, fixedVars, pipeVars, printVars, seen, groupVars,
                 mainVars>>

\* defer outr.Close()
OutputDefer ==
  /\ cpc = "defer"
  /\ cpc' = "exit"
  /\ outrClosed' = TRUE
  /\ UNCHANGED <<buildVars, fixedVars, written, wpend, outwClosed, printVars,
                 skipBody, acc, seen, out, err, groupVars, mainVars,
                 origin>>

OutputExit ==
  /\ cpc = "exit"
  /\ cpc' = "done"
  /\ Record(err)
  /\ UNCHANGED <<buildVars, fixedVars, pipeVars, printVars, skipBody, acc, seen,
                 out, err, mainVars, origin>>

\* ------------------------------------------------------------ print task
\* the backend delivers a progress event and the print loop handles it
PrintEvent ==
  /\ bpc = "build" /\ fpc = "recv"
  /\ sent < MaxEvents
  /\ sent' = sent + 1
  /\ logged' = Append(logged, sent + 1)
  /\ late' = IF gctxDone THEN late + 1 ELSE late
  /\ UNCHANGED <<buildVars, fixedVars, pipeVars, eventsClosed, fpc, ferr,
                 outputVars, groupVars, mainVars, origin>>

\* the print loop fails while handling a delivered event
PrintFails ==
  /\ bpc = "build" /\ fpc = "recv"
  /\ sent < MaxEvents
  /\ sent' = sent + 1
  /\ fpc' = "exit"
  /\ ferr' = PrintError
  /\ origin' = FirstErr(PrintError)
  /\ UNCHANGED <<buildVars, fixedVars, pipeVars, eventsClosed, logged, late,
                 outputVars, groupVars, mainVars>>

\* dispCtx tied to the group: lg.WithContext(gctx)
dispCtxDone_Group == gctxDone

\* line 65: dispCtx derives from context.Background(), which is never done
dispCtxDone == FALSE

\* the events channel is closed: PrintSolveStatus returns nil; were its
\* context done it would return the context's error
PrintChannelClosed ==
  /\ fpc = "recv"
  /\ eventsClosed \/ dispCtxDone
  /\ fpc' = "exit"
  /\ ferr' = IF eventsClosed THEN NoErr ELSE CanceledError
  /\ UNCHANGED <<buildVars, fixedVars, pipeVars, sent, eventsClosed, logged,
                 late,                 outputVars, groupVars, mainVars, origin>>

PrintExit ==
  /\ fpc = "exit"
  /\ fpc' = "done"
  /\ Record(ferr)
  /\ UNCHANGED <<buildVars, fixedVars, pipeVars, sent, eventsClosed, ferr, logged,
                 late,                 outputVars, mainVars, origin>>

\* ----------------------------------------------------------------- Compute
AllDone == bpc = "done" /\ cpc = "done" /\ fpc = "done"

\* ComputeReturns with out loaded before the tasks ran
ComputeReturns_EarlySnapshot ==
  /\ mpc = "wait"
  /\ AllDone
  /\ mpc' = "returned"
  /\ retOut' = NilValue
  /\ retErr' = egErr
  /\ UNCHANGED <<buildVars, fixedVars, pipeVars, printVars, outputVars,
                 groupVars, origin>>

\* return out, compiler.Err(eg.Wait()): Wait returns once the three tasks
\* have returned; out is loaded after the call
ComputeReturns ==
  /\ mpc = "wait"
  /\ AllDone
  /\ mpc' = "returned"
  /\ retOut' = out
  /\ retErr' = egErr
  /\ UNCHANGED <<buildVars, fixedVars, pipeVars, printVars, outputVars,
                 groupVars, origin>>

Next ==
  \/ ResolveDir
  \/ CallBuild
  \/ BackendWrite
  \/ BackendWriteClosed
  \/ BackendFails
  \/ BackendCancelled
  \/ BackendSucceeds
  \/ BuildDefer
  \/ BuildExit
  \/ NextHeader
  \/ NextSkipsBody
  \/ NextEndOfArchive
  \/ NextPipeClosed
  \/ CompileEntry
  \/ CompilePipeClosed
  \/ OutputDefer
  \/ OutputExit
  \/ PrintEvent
  \/ PrintFails
  \/ PrintChannelClosed
  \/ PrintExit
  \/ ComputeReturns

Spec == Init /\ [][Next]_vars

\* --------------------------------------------- outputfn on a whole stream
\* outputfn applied to a reader that holds the complete tar stream s
RECURSIVE outputfnFrom(_, _, _)
outputfnFrom(s, i, a) ==
  IF i > Len(s) THEN [out |-> Ptr(a), err |-> NoErr]
  ELSE LET r == outputfnEntry(a, s[i]) IN
       IF r.err # NoErr THEN [out |-> NilValue, err |-> r.err]
       ELSE outputfnFrom(s, i + 1, r.v)

outputfn(s) == outputfnFrom(s, 1, EmptyStruct)

EntriesRead == written \div 2

InitCollect ==
  /\ localdirs \in [{} -> BOOLEAN]
  /\ stream \in SeqsUpTo(Entries, MaxStream)
  /\ StartState
  /\ ClientOpen
  /\ event = NoEvent /\ ReportIdle

\* one iteration of the for loop: tr.Next() returns a header, then lines
\* 174-191 run on the entry
ReadEntry ==
  /\ cpc = "next"
  /\ EntriesRead < Len(stream)
  /\ written' = written + 2
  /\ seen' = Append(seen, stream[EntriesRead + 1])
  /\ LET r == outputfnEntry(acc, stream[EntriesRead + 1]) IN
       IF r.err # NoErr
       THEN OutputReturns(NilValue, r.err)
       ELSE /\ acc' = r.v
            /\ UNCHANGED <<cpc, skipBody, out, err, origin>>
  /\ UNCHANGED <<buildVars, fixedVars, wpend, outwClosed, outrClosed, printVars,
                 groupVars, mainVars>>

\* tr.Next() returns io.EOF: break, return out, nil
ReadEOF ==
  /\ cpc = "next"
  /\ EntriesRead = Len(stream)
  /\ written' = NTokens
  /\ OutputReturns(Ptr(acc), NoErr)
  /\ UNCHANGED <<buildVars, fixedVars, wpend, outwClosed, outrClosed, printVars,
                 seen, groupVars, mainVars>>

NextCollect ==
  \/ ReadEntry
  \/ ReadEOF

SpecCollect == InitCollect /\ [][NextCollect]_vars

\* ------------------------------------------------------- logSolveStatus
\* strings.HasPrefix
HasPrefix(s, prefix) ==
  /\ Len(s) >= Len(prefix)
  /\ SubSeq(s, 1, Len(prefix)) = prefix

\* strings.Index for a one-character substring: 0-based, -1 when absent
Index(s, ch) ==
  IF \E i \in 1..Len(s) : s[i] = ch
  THEN (CHOOSE i \in 1..Len(s) :
          s[i] = ch /\ \A j \in 1..(i - 1) : s[j] # ch) - 1
  ELSE -1

\* the slice expression s[lo:hi]; out of range it panics
InRange(s, lo, hi) == 0 <= lo /\ lo <= hi /\ hi <= Len(s)
Slice(s, lo, hi) == SubSeq(s, lo + 1, hi)

\* parseName with the message starting right after the closing @
parseName_KeepsSeparator(name) ==
  IF Len(name) < 2 \/ ~HasPrefix(name, <<"@">>) THEN Tag(<<>>, name)
  ELSE LET prefixEndPos == Index(Slice(name, 1, Len(name)), "@") IN
       IF prefixEndPos = -1 THEN Tag(<<>>, name)
       ELSE Tag(Slice(name, 1, prefixEndPos + 1),
                Slice(name, prefixEndPos + 2, Len(name)))

\* lines 197-210
parseName(name) ==
  IF Len(name) < 2 \/ ~HasPrefix(name, <<"@">>) THEN Tag(<<>>, name)
  ELSE LET prefixEndPos == Index(Slice(name, 1, Len(name)), "@") IN
       IF prefixEndPos = -1 THEN Tag(<<>>, name)
       ELSE IF ~InRange(name, prefixEndPos + 3, Len(name)) THEN Panic
       ELSE Tag(Slice(name, 1, prefixEndPos + 1),
                Slice(name, prefixEndPos + 3, Len(name)))

\* a zerolog record: severity, the component field and the message
Record3(level, component, msg) ==
  [level |-> level, component |-> component, msg |-> msg]

\* lines 213-227: the vertex callback
vertexPrint(component, name, index) ==
  << Record3("debug", component, <<"#", index, name>>),
     Record3("debug", component, <<"#", index, "digest">>) >>

\* lines 228-239: the status callback
statusPrint(component) ==
  << Record3("debug", component, <<"formatted">>) >>

\* lines 240-258: the log callback
logPrint(component, streamIndex) ==
  IF streamIndex = 1 THEN << Record3("info", component, <<"formatted">>) >>
  ELSE IF streamIndex = 2 THEN << Record3("error", component, <<"formatted">>) >>
  ELSE << >>

VertexNames == SeqsUpTo(Chars, MaxName)

ReportEvents ==
  [kind : {"vertex"}, name : VertexNames, index : {1, 2}, stream : {0}]
    \cup [kind : {"status"}, name : VertexNames, index : {0}, stream : {0}]
    \cup [kind : {"log"}, name : VertexNames, index : {0}, stream : 0..3]

InitReport ==
  /\ localdirs \in [{} -> BOOLEAN]
  /\ stream = <<>>
  /\ StartState
  /\ ClientOpen
  /\ event \in ReportEvents
  /\ ReportIdle

\* a callback runs: parseName first, then the records unless it panicked
Callback(recs) ==
  /\ rpc = "idle"
  /\ parsed' = parseName(event.name)
  /\ IF parsed'.panic
     THEN rpc' = "panic" /\ UNCHANGED records
     ELSE rpc' = "returned" /\ records' = records \o recs
  /\ UNCHANGED <<buildVars, pipeVars, printVars, outputVars, groupVars,
                 mainVars, origin, stream, clientVars, event>>

OnVertex ==
  /\ event.kind = "vertex"
  /\ Callback(vertexPrint(parseName(event.name).component,
                          parseName(event.name).message, event.index))

OnStatus ==
  /\ event.kind = "status"
  /\ Callback(statusPrint(parseName(event.name).component))

OnLog ==
  /\ event.kind = "log"
  /\ Callback(logPrint(parseName(event.name).component, event.stream))

NextReport ==
  \/ OnVertex
  \/ OnStatus
  \/ OnLog

SpecReport == InitReport /\ [][NextReport]_vars

\* ---------------------------------------------------------------- NewClient
Hosts == {<<>>, <<"tcp://h1">>, <<"tcp://h2">>}

\* resolveHost with BUILDKIT_HOST read first
resolveHost_EnvFirst(host, env) ==
  LET h == IF env # <<>> THEN env ELSE host IN
  IF h = <<>> THEN defaultBuildkitHost ELSE h

\* lines 40-45: the host bk.New is called with
resolveHost(host, env) ==
  LET h == IF host = <<>> THEN env ELSE host IN
  IF h = <<>> THEN defaultBuildkitHost ELSE h

\* NewClient calling bk.New a second time after a failure
NewClient_Retries ==
  /\ client = "unset"
  /\ LET host == resolveHost(hostArg, envHost) IN
       dialed' = IF dialOk THEN Append(dialed, host)
                 ELSE Append(Append(dialed, host), host)
  /\ IF dialOk
     THEN client' = "client" /\ connErr' = NoErr
     ELSE client' = "nil" /\ connErr' = ConnectionError
  /\ UNCHANGED <<buildVars, pipeVars, printVars, outputVars, groupVars,
                 mainVars, origin, stream, reportVars, hostArg, envHost, dialOk>>

\* lines 39-53
NewClient ==
  /\ client = "unset"
  /\ dialed' = Append(dialed, resolveHost(hostArg, envHost))
  /\ IF dialOk
     THEN client' = "client" /\ connErr' = NoErr
     ELSE client' = "nil" /\ connErr' = ConnectionError
  /\ UNCHANGED <<buildVars, pipeVars, printVars, outputVars, groupVars,
                 mainVars, origin, stream, reportVars, hostArg, envHost, dialOk>>

\* NewClient is about to be called; Compute runs on the client it returns
InitClient ==
  /\ \E L \in SUBSET Labels : localdirs \in [L -> BOOLEAN]
  /\ stream \in SeqsUpTo(CoreEntries, 1)
  /\ StartState
  /\ hostArg \in Hosts /\ envHost \in Hosts /\ dialOk \in BOOLEAN
  /\ dialed = <<>> /\ client = "unset" /\ connErr = NoErr
  /\ event = NoEvent /\ ReportIdle

NextClient ==
  \/ NewClient
  \/ (client = "client" /\ Next)

SpecClient == InitClient /\ [][NextClient]_vars

\* ================================================================= claims
Returned == mpc = "returned"
Stuck == ~ENABLED Next
Failed == {e \in {berr, err, ferr} : e # NoErr}

\* C1: when the solve fails before any other task has failed, the write end
\* of the pipe is closed once buildfn has returned, the run does not stop
\* short of Compute returning, and Compute returns the SolveError.
C1_SolveErrorReturned ==
  origin = SolveError =>
    /\ bpc \in {"exit", "done"} => outwClosed
    /\ Stuck => Returned
    /\ Returned => retErr = SolveError

\* C2: once any task has failed, the run never stops before all three tasks
\* have finished and Compute has returned.
C2_ReturnsAfterFailure ==
  (origin # NoErr /\ Stuck) => (AllDone /\ Returned)

\* C3: c.c.Build is called only after every local directory has resolved;
\* when a directory fails to resolve buildfn returns PathResolutionError and
\* Build is never called.
C3_ResolveBeforeBuild ==
  /\ builds > 0 =>
       /\ resolved = DOMAIN localdirs
       /\ \A label \in DOMAIN localdirs : localdirs[label]
  /\ berr = PathResolutionError => builds = 0
  /\ (bpc # "resolve" /\ \E label \in DOMAIN localdirs : ~localdirs[label]) =>
       berr = PathResolutionError

C3_Witness ==
  /\ bpc = "done" /\ berr = PathResolutionError
  /\ resolved # {} /\ builds = 0

\* C4: Compute returns the error that arose first; an error another task
\* produces afterwards never replaces it (stated for the runs in which the
\* print loop does not fail).
C4_FirstErrorWins ==
  (Returned /\ origin # NoErr /\ ferr = NoErr) => retErr = origin

\* C5: whenever Compute returns an error the returned value is nil.
C5_NoValueWithError ==
  (Returned /\ retErr # NoErr) => retOut.isNil

\* C6: once buildfn's task has returned the write end is closed, once
\* outputfn's task has returned the read end is closed, and both are closed
\* after Compute returns.
C6_PipeClosed ==
  /\ bpc \in {"exit", "done"} => outwClosed
  /\ cpc \in {"exit", "done"} => outrClosed
  /\ Returned => (outwClosed /\ outrClosed)

C6_Witness ==
  /\ Returned /\ berr = SolveError /\ err # NoErr
  /\ outwClosed /\ outrClosed

\* C7: Compute returns a nil error exactly when no task failed, and then the
\* returned value is the accumulator outputfn returned at end of stream,
\* read after all three tasks have finished.
C7_ResultOnSuccess ==
  Returned =>
    /\ retErr = NoErr <=> Failed = {}
    /\ retErr = NoErr =>
         /\ AllDone
         /\ ~retOut.isNil
         /\ retOut = Ptr(acc)
         /\ retOut = outputfn(stream).out

C7_Witness ==
  /\ Returned /\ retErr = NoErr
  /\ Defined(retOut.v) # {}
  /\ \E i \in 1..Len(stream) : ~HasSuffix(stream[i].name, CueExt)

\* ---------------------------------------------------- claims on outputfn
Finished == cpc = "defer"
Matching == {i \in 1..Len(stream) : HasSuffix(stream[i].name, CueExt)}
ContentOf(i) == stream[i].content

\* C8: a successful result holds exactly what the entries with the .cue
\* extension define; a stream with no such entry yields the empty value and
\* a stream with one well-formed such entry yields its decoded content.
C8_CollectsMatchingEntries ==
  Finished =>
    /\ err = NoErr =>
         /\ ~out.isNil
         /\ \A k \in Keys :
              /\ out.v[k] # Absent =>
                   \E i \in Matching : ContentOf(i).v[k] = out.v[k]
              /\ \A i \in Matching :
                   ContentOf(i).v[k] # Absent => out.v[k] = ContentOf(i).v[k]
    /\ Matching = {} => (err = NoErr /\ out = Ptr(EmptyStruct))
    /\ \A i \in Matching :
         (Matching = {i} /\ ContentOf(i).wellFormed) =>
           (err = NoErr /\ out = Ptr(ContentOf(i).v))

C8_Witness ==
  /\ Finished /\ err = NoErr
  /\ Cardinality(Matching) = 1 /\ Len(stream) = 2
  /\ Defined(out.v) # {}
  /\ \E i \in 1..Len(stream) : i \notin Matching /\ Defined(ContentOf(i).v) # {}

\* C9: a matching entry that conflicts with the accumulator ends the loop
\* with MergeError and a nil value, the accumulator is left as it was and no
\* later entry is read; an entry that does not conflict is merged to the
\* union and no value already set is changed.
C9_MergeRejected ==
  [][ /\ (cpc = "next" /\ EntriesRead < Len(stream)) =>
           LET e == stream[EntriesRead + 1] IN
           (HasSuffix(e.name, CueExt) /\ e.content.wellFormed) =>
             IF Conflict(acc, e.content.v)
             THEN /\ cpc' = "defer" /\ err' = MergeError /\ out'.isNil
                  /\ acc' = acc
             ELSE /\ cpc' = "next"
                  /\ \A k \in Keys :
                       acc'[k] = IF acc[k] # Absent THEN acc[k]
                                 ELSE e.content.v[k]
      /\ cpc = "defer" => UNCHANGED <<written, acc, out, err>>
    ]_vars

C9_Witness ==
  /\ Finished /\ err = MergeError /\ out.isNil
  /\ EntriesRead = 2 /\ Len(stream) > 2
  /\ Defined(acc) # {}

\* C10: two matching entries at disjoint paths give the same value
\* whichever comes first in the stream.
C10_OrderIndependent ==
  (/\ Finished
   /\ Len(stream) = 2
   /\ Matching = {1, 2}
   /\ PathsOf(ContentOf(1).v) \cap PathsOf(ContentOf(2).v) = {})
  => out = outputfn(<<stream[2], stream[1]>>).out

C10_Witness ==
  /\ Finished /\ err = NoErr
  /\ Len(stream) = 2 /\ Matching = {1, 2}
  /\ PathsOf(ContentOf(1).v) # {} /\ PathsOf(ContentOf(2).v) # {}
  /\ PathsOf(ContentOf(1).v) \cap PathsOf(ContentOf(2).v) = {}
  /\ ContentOf(1) # ContentOf(2)

\* ------------------------------------------------ claims, second part
\* C11: when tr.Next() ends the loop, a clean end of stream (the reader is
\* between entries) returns the accumulator with a nil error, and any other
\* read failure returns StreamReadError and a nil value.
C11_CleanEndOfStream ==
  [][ (cpc = "next" /\ cpc' = "defer") =>
        IF ~skipBody
        THEN err' = NoErr /\ out' = Ptr(acc)
        ELSE err' = StreamReadError /\ out'.isNil
    ]_vars

C11_Witness ==
  /\ cpc = "defer" /\ err = StreamReadError /\ out.isNil
  /\ skipBody /\ Defined(acc) # {}

\* ------------------------------------------------ claims on the reporter
Called == rpc # "idle"
EvName == event.name

\* C12: for a name @c@ rest (c without @, one space after the closing @)
\* parseName returns (c, rest); for a name shorter than two characters, not
\* starting with @ or without a second @ it returns ("", name).
C12_ParseName ==
  Called =>
    /\ \A i \in 2..(Len(EvName) - 1) :
         (/\ EvName[1] = "@" /\ EvName[i] = "@" /\ EvName[i + 1] = " "
          /\ \A j \in 2..(i - 1) : EvName[j] # "@")
         => parsed = Tag(SubSeq(EvName, 2, i - 1),
                         SubSeq(EvName, i + 2, Len(EvName)))
    /\ (\/ Len(EvName) < 2
        \/ EvName[1] # "@"
        \/ \A j \in 2..Len(EvName) : EvName[j] # "@")
       => parsed = Tag(<<>>, EvName)

C12_Witness ==
  /\ Called
  /\ EvName = <<"@", "c", "@", " ">> \o parsed.message
  /\ parsed = Tag(<<"c">>, <<"r">>)

\* C13: a stream write with index 1 gives exactly one info record, with
\* index 2 exactly one error record, with any other index no record, and the
\* callback returns.
C13_StreamWrite ==
  (Called /\ event.kind = "log") =>
    /\ rpc = "returned"
    /\ event.stream = 1 => (Len(records) = 1 /\ records[1].level = "info")
    /\ event.stream = 2 => (Len(records) = 1 /\ records[1].level = "error")
    /\ event.stream \notin {1, 2} => records = <<>>

\* C14: a status update gives exactly one record, of severity debug, with
\* the index, the parsed message and the digest; every record carries the
\* parsed component.
C14_StatusRecord ==
  /\ (Called /\ event.kind = "vertex") =>
       /\ Len(records) = 1
       /\ records[1].level = "debug"
  /\ Called =>
       \A i \in 1..Len(records) : records[i].component = parsed.component

\* C20: parseName returns for every name; when the name starts with @ and
\* has a second @, the message is what follows the closing @ and one more
\* character, possibly nothing.
C20_ParseTotal ==
  Called =>
    /\ ~parsed.panic
    /\ \A i \in 2..Len(EvName) :
         (/\ EvName[1] = "@" /\ EvName[i] = "@"
          /\ \A j \in 2..(i - 1) : EvName[j] # "@")
         => parsed.message = SubSeq(EvName, i + 2, Len(EvName))

C16_NoRetry ==
  /\ builds <= 1
  /\ Len(dialed) <= 1
  /\ client # "unset" =>
       /\ Len(dialed) = 1
       /\ IF dialOk THEN client = "client" /\ connErr = NoErr
          ELSE client = "nil" /\ connErr = ConnectionError
  /\ client # "client" => (builds = 0 /\ mpc = "wait" /\ bpc = "resolve")

C16_Witness ==
  /\ Returned /\ retErr = SolveError
  /\ builds = 1 /\ Len(dialed) = 1 /\ gctxDone

\* C17: bk.New is called with the host argument when it is not empty, else
\* with BUILDKIT_HOST when that is not empty, else with the default.
C17_HostOrder ==
  client # "unset" =>
    dialed = << IF hostArg # <<>> THEN hostArg
                ELSE IF envHost # <<>> THEN envHost
                ELSE defaultBuildkitHost >>

C17_Witness ==
  /\ client = "client"
  /\ hostArg # <<>> /\ envHost # <<>> /\ envHost # hostArg
  /\ dialed = <<hostArg>>

\* --------------------------------------------- claims, third part
CollectorErrors == {StreamReadError, DecodeError, MergeError}

\* C18: when outputfn fails first, no write stays blocked on the pipe once
\* the read end is closed, the run does not stop before Compute returns,
\* and Compute returns outputfn's error (stated for the runs in which the
\* print loop does not fail).
C18_ReaderCloseUnblocksWriter ==
  origin \in CollectorErrors =>
    /\ (wpend /\ outrClosed) => ENABLED BackendWriteClosed
    /\ Stuck => (Returned /\ ~wpend)
    /\ (Returned /\ ferr = NoErr) => retErr = err

\* the entries whose header the reader has taken from the pipe
HeadersTaken ==
  IF written = NTokens THEN Len(stream) ELSE (written + 1) \div 2

====
